---- MODULE Spec2Model ----
(***************************************************************************)
(* A model of internal/hcl/parser.go: the Parser's options and             *)
(* constructor, the file loader, the block constructor, the variable       *)
(* resolver and the ParseDirectory pipeline.                               *)
(*                                                                         *)
(* Go strings are sequences of one-character strings, so that HasPrefix,   *)
(* HasSuffix, slicing and strings.Split are computed as the code computes  *)
(* them.  Go maps are reference values: they live in `heap' and the        *)
(* Parser's fields hold references to them.                                *)
(***************************************************************************)
EXTENDS Integers, Sequences, FiniteSets, TLC

\* ------------------------------------------------------------ bounds

\* ParseDirectory calls made on the one Parser.
MaxCalls == 2

\* ------------------------------------------------------------ strings

HasPrefix(s, prefix) ==
    /\ Len(s) >= Len(prefix)
    /\ SubSeq(s, 1, Len(prefix)) = prefix

HasSuffix(s, suffix) ==
    /\ Len(s) >= Len(suffix)
    /\ SubSeq(s, Len(s) - Len(suffix) + 1, Len(s)) = suffix

\* s[n:]
SliceFrom(s, n) == SubSeq(s, n + 1, Len(s))

\* strings.Split(s, sep) for a one-character separator
RECURSIVE Split(_, _)
Split(s, sep) ==
    IF \A i \in 1..Len(s) : s[i] # sep
    THEN <<s>>
    ELSE LET i == CHOOSE k \in 1..Len(s) :
                      s[k] = sep /\ \A j \in 1..(k - 1) : s[j] # sep
         IN  <<SubSeq(s, 1, i - 1)>> \o Split(SubSeq(s, i + 1, Len(s)), sep)

\* byte order of the characters that occur in file names
CharOrder ==
    <<".", "a", "b", "c", "d", "e", "f", "j", "m", "n", "o", "r", "s", "t",
      "u", "v">>

CharRank(c) == CHOOSE i \in 1..Len(CharOrder) : CharOrder[i] = c

\* a < b as Go compares strings
RECURSIVE StrLess(_, _)
StrLess(a, b) ==
    IF Len(b) = 0 THEN FALSE
    ELSE IF Len(a) = 0 THEN TRUE
    ELSE IF a[1] # b[1] THEN CharRank(a[1]) < CharRank(b[1])
    ELSE StrLess(Tail(a), Tail(b))

\* the literals of the source
TFVarPrefix == <<"T", "F", "_", "V", "A", "R", "_">>
TfSuffix == <<".", "t", "f">>
JsonSuffix == <<".", "j", "s", "o", "n">>
TfJsonSuffix == TfSuffix \o JsonSuffix
autoVarsSuffix == <<".", "a", "u", "t", "o", ".", "t", "f", "v", "a", "r", "s">>
defaultTfFile == <<"t", "e", "r", "r", "a", "f", "o", "r", "m", ".", "t", "f", "v", "a", "r", "s">>
Eq == "="

\* ------------------------------------------------------------ values and maps

StringVal(s) == [ty |-> "string", v |-> s]
NumberVal(s) == [ty |-> "number", v |-> s]
\* what Expression.Value returns beside its error diagnostics
DynamicVal == [ty |-> "dynamic", v |-> <<>>]

Nil == 0
EmptyMap == <<>>

\* for k, v := range src { dst[k] = v }
Overlay(dst, src) ==
    [k \in (DOMAIN dst) \cup (DOMAIN src) |->
        IF k \in DOMAIN src THEN src[k] ELSE dst[k]]

\* make(map...): the heap with one more (empty) map; its reference is Len
Alloc(h) == Append(h, EmptyMap)

\* ------------------------------------------------------------ the file system

\* One directory entry of initialPath.  For a .tf / .tf.json file: `diag' says
\* that the HCL parse reports errors, `blocks' are the top-level blocks of
\* the body the parser built (for a file with errors, the body it recovered),
\* `schemaErr' that Body.Content(terraformSchema) reports errors.  For a
\* variable file: `attrs' are the attributes of the body hclsyntax built
\* (ok = FALSE: the attribute's expression does not evaluate).
Entry(name, isDir, readable, diag, blocks, schemaErr, attrs) ==
    [name |-> name, isDir |-> isDir, readable |-> readable, diag |-> diag,
     blocks |-> blocks, schemaErr |-> schemaErr, attrs |-> attrs]

TfFile(name, readable, diag, blocks, schemaErr) ==
    Entry(name, FALSE, readable, diag, blocks, schemaErr, <<>>)

VarFile(name, readable, attrs) ==
    Entry(name, FALSE, readable, FALSE, <<>>, FALSE, attrs)

Attr(name, ok, val) == [name |-> name, ok |-> ok, val |-> val]

\* ioutil.ReadDir / os.ReadDir: the entries sorted by file name
RECURSIVE SortByName(_)
SortByName(S) ==
    IF S = {} THEN <<>>
    ELSE LET m == CHOOSE e \in S : \A o \in S \ {e} : StrLess(e.name, o.name)
         IN  <<m>> \o SortByName(S \ {m})

ReadDir(d) ==
    IF d.readable
    THEN [err |-> FALSE, infos |-> SortByName(d.entries)]
    ELSE [err |-> TRUE, infos |-> <<>>]

\* os.Stat(path.Join(initialPath, name)) returns a nil error
StatOk(d, name) == \E e \in d.entries : e.name = name

\* os.ReadFile(path.Join(initialPath, name)) returns a nil error
ReadFileOk(d, name) ==
    \E e \in d.entries : e.name = name /\ ~e.isDir /\ e.readable

FileNamed(d, name) == CHOOSE e \in d.entries : e.name = name

\* ------------------------------------------------------------ the inputs

NameX == <<"x">>
NameY == <<"y">>

aTf == <<"a">> \o TfSuffix
bTf == <<"b">> \o TfSuffix
cTfJson == <<"c">> \o TfJsonSuffix
dTf == <<"d">> \o TfSuffix
readme == <<"r", ".", "m", "d">>
aAuto == <<"a">> \o autoVarsSuffix
bAutoJson == <<"b">> \o autoVarsSuffix \o JsonSuffix
cAuto == <<"c">> \o autoVarsSuffix
eVars == <<"e", ".", "t", "f", "v", "a", "r", "s">>
mVars == <<"m", ".", "t", "f", "v", "a", "r", "s">>

OneValidFile == {TfFile(aTf, TRUE, FALSE, <<"variable", "resource">>, FALSE)}

\* the configuration files of the directory
TfChoices ==
    { \* no eligible file: a readme and a sub-directory named like a .tf file
      {Entry(readme, FALSE, TRUE, FALSE, <<>>, FALSE, <<>>),
       Entry(dTf, TRUE, TRUE, FALSE, <<>>, FALSE, <<>>)},
      OneValidFile,
      \* a file with a syntax error after its first block, and a valid file
      {TfFile(aTf, TRUE, TRUE, <<"module">>, FALSE),
       TfFile(bTf, TRUE, FALSE, <<"resource">>, FALSE)},
      \* every file fails, no block recovered
      {TfFile(aTf, FALSE, TRUE, <<>>, FALSE),
       TfFile(cTfJson, TRUE, TRUE, <<>>, FALSE)},
      \* every file fails, a block recovered from one of them
      {TfFile(aTf, TRUE, TRUE, <<"module">>, FALSE),
       TfFile(cTfJson, TRUE, TRUE, <<>>, FALSE)},
      \* a file whose blocks cannot be extracted, and a valid file
      {TfFile(aTf, TRUE, FALSE, <<"module">>, TRUE),
       TfFile(bTf, TRUE, FALSE, <<"resource">>, FALSE)},
      \* a file that cannot be read, and a valid file
      {TfFile(aTf, FALSE, TRUE, <<>>, FALSE),
       TfFile(bTf, TRUE, FALSE, <<"resource">>, FALSE)},
      \* two valid files, one in each syntax
      {TfFile(aTf, TRUE, FALSE, <<"variable", "resource">>, FALSE),
       TfFile(cTfJson, TRUE, FALSE, <<"resource">>, FALSE)} }

OneExplicitVarFile ==
    {VarFile(eVars, TRUE, <<Attr(NameX, TRUE, NumberVal(<<"6">>))>>)}

\* the variable files of the directory
VarChoices ==
    { OneExplicitVarFile,
      {VarFile(defaultTfFile, TRUE,
               <<Attr(NameX, TRUE, NumberVal(<<"4">>)),
                 Attr(NameY, TRUE, NumberVal(<<"4">>))>>),
       VarFile(aAuto, TRUE, <<Attr(NameX, TRUE, NumberVal(<<"5">>))>>),
       VarFile(cAuto, TRUE, <<Attr(NameX, TRUE, NumberVal(<<"7">>))>>),
       \* malformed: a syntax error, and an expression that does not evaluate
       Entry(eVars, FALSE, TRUE, TRUE, <<>>, FALSE,
             <<Attr(NameY, FALSE, DynamicVal)>>)},
      {VarFile(defaultTfFile, FALSE, <<>>),
       VarFile(defaultTfFile \o JsonSuffix, TRUE, <<>>),
       VarFile(bAutoJson, TRUE, <<Attr(NameY, TRUE, StringVal(<<"5">>))>>),
       VarFile(eVars, FALSE, <<>>)} }

\* the directories: every choice of configuration files beside one variable
\* file, every choice of variable files beside one valid configuration file,
\* and a directory that cannot be read
DirChoices ==
    { [readable |-> TRUE, entries |-> t \cup OneExplicitVarFile] :
        t \in TfChoices }
    \cup { [readable |-> TRUE, entries |-> OneValidFile \cup v] :
        v \in VarChoices }
    \cup { [readable |-> FALSE, entries |-> {}] }

\* os.Environ()
EnvironChoices ==
    { << TFVarPrefix \o <<"x", "=", "a">>, <<"P", "=", "p">> >>,
      << TFVarPrefix \o <<"x", "=", "a", "=", "b">>,
         TFVarPrefix \o <<"y", "=", "a">> >> }

\* the project configuration's env block
ProjectEnvChoices ==
    { EmptyMap,
      ((TFVarPrefix \o NameX) :> <<"b", "=", "c">>) @@ (<<"z">> :> <<"q">>) }

\* what the remote variable loader answers when it succeeds
RemoteChoices ==
    { EmptyMap,
      (NameX :> StringVal(<<"s">>)) @@ (NameY :> StringVal(<<"r">>)) }

\* ------------------------------------------------------------ the options

Opt(op, paths, env, vs, vars, host, token) ==
    [op |-> op, paths |-> paths, env |-> env, vs |-> vs, vars |-> vars,
     host |-> host, token |-> token]

WithTFVarsPaths(paths) == Opt("TFVarsPaths", paths, EmptyMap, <<>>, EmptyMap, "", "")
StopOnHCLError == Opt("StopOnHCLError", <<>>, EmptyMap, <<>>, EmptyMap, "", "")
WithTFEnvVars(projectEnv) == Opt("TFEnvVars", <<>>, projectEnv, <<>>, EmptyMap, "", "")
WithPlanFlagVars(vs) == Opt("PlanFlagVars", <<>>, EmptyMap, vs, EmptyMap, "", "")
WithInputVars(vars) == Opt("InputVars", <<>>, EmptyMap, <<>>, vars, "", "")
WithRemoteVarLoader(host, token) ==
    Opt("RemoteVarLoader", <<>>, EmptyMap, <<>>, EmptyMap, host, token)
WithWarningFunc == Opt("WarningFunc", <<>>, EmptyMap, <<>>, EmptyMap, "", "")

\* lines 62-71: the TF_VAR_ entries of os.Environ(), in order
RECURSIVE EnvironVars(_, _)
EnvironVars(environ, ctyVars) ==
    IF environ = <<>> THEN ctyVars
    ELSE LET v == Head(environ)
             pieces == Split(SliceFrom(v, Len(TFVarPrefix)), Eq)
         IN  IF HasPrefix(v, TFVarPrefix) /\ Len(pieces) = 2
             THEN EnvironVars(Tail(environ),
                              Overlay(ctyVars, pieces[1] :> StringVal(pieces[2])))
             ELSE EnvironVars(Tail(environ), ctyVars)

\* lines 74-78: the TF_VAR_ keys of the project env, prefix stripped
ProjectVars(projectEnv) ==
    LET keys == {k \in DOMAIN projectEnv : HasPrefix(k, TFVarPrefix)}
    IN  [n \in {SliceFrom(k, Len(TFVarPrefix)) : k \in keys} |->
            StringVal(projectEnv[TFVarPrefix \o n])]

\* a slip: an entry with more than one "=" read as name=value too
RECURSIVE PlanFlagVarsLenient(_, _)
PlanFlagVarsLenient(vs, inputVars) ==
    IF vs = <<>> THEN inputVars
    ELSE LET pieces == Split(Head(vs), Eq)
         IN  IF Len(pieces) < 2
             THEN PlanFlagVarsLenient(Tail(vs), inputVars)
             ELSE PlanFlagVarsLenient(
                      Tail(vs),
                      Overlay(inputVars, pieces[1] :> StringVal(pieces[2])))

\* lines 91-98: the name=value entries, in order
RECURSIVE PlanFlagVars(_, _)
PlanFlagVars(vs, inputVars) ==
    IF vs = <<>> THEN inputVars
    ELSE LET pieces == Split(Head(vs), Eq)
         IN  IF Len(pieces) # 2
             THEN PlanFlagVars(Tail(vs), inputVars)
             ELSE PlanFlagVars(Tail(vs),
                               Overlay(inputVars, pieces[1] :> StringVal(pieces[2])))

\* a slip: every path kept, whether it exists or not
ExistingPathsUnchecked(d, paths) == paths

\* lines 32-45: the paths that exist, in the order given
RECURSIVE ExistingPaths(_, _)
ExistingPaths(d, paths) ==
    IF paths = <<>> THEN <<>>
    ELSE IF StatOk(d, Head(paths))
         THEN <<Head(paths)>> \o ExistingPaths(d, Tail(paths))
         ELSE ExistingPaths(d, Tail(paths))

\* p.inputVars after "if p.inputVars == nil { p.inputVars = make(...) }"
WithInputMap(st) ==
    IF st.p.inputVars = Nil
    THEN [p |-> [st.p EXCEPT !.inputVars = Len(st.heap) + 1],
          heap |-> Alloc(st.heap)]
    ELSE st

\* option(p): st holds the Parser under construction and the heap
ApplyOption(st, o, d, environ) ==
    CASE o.op = "TFVarsPaths" ->
           [st EXCEPT !.p.tfvarsPaths = ExistingPaths(d, o.paths)]
      [] o.op = "StopOnHCLError" ->
           [st EXCEPT !.p.stopOnHCLError = TRUE]
      [] o.op = "TFEnvVars" ->
           [p |-> [st.p EXCEPT !.tfEnvVars = Len(st.heap) + 1],
            heap |-> Append(st.heap,
                            Overlay(EnvironVars(environ, EmptyMap),
                                    ProjectVars(o.env)))]
      [] o.op = "PlanFlagVars" ->
           LET s1 == WithInputMap(st)
           IN  [s1 EXCEPT !.heap[s1.p.inputVars] = PlanFlagVars(o.vs, @)]
      [] o.op = "InputVars" ->
           LET s1 == WithInputMap(st)
           IN  [s1 EXCEPT !.heap[s1.p.inputVars] =
                    Overlay(@, [k \in DOMAIN o.vars |-> StringVal(o.vars[k])])]
      [] o.op = "RemoteVarLoader" ->
           IF o.host = "" \/ o.token = ""
           THEN st
           ELSE [st EXCEPT !.p.remoteVariablesLoader = TRUE]
      [] o.op = "WarningFunc" ->
           [st EXCEPT !.p.writeWarning = TRUE]

RECURSIVE ApplyOptions(_, _, _, _)
ApplyOptions(st, options, d, environ) ==
    IF options = <<>> THEN st
    ELSE ApplyOptions(ApplyOption(st, Head(options), d, environ),
                      Tail(options), d, environ)

\* lines 189-209: terraform.tfvars, terraform.tfvars.json, then the
\* auto-loaded files in directory order
RECURSIVE AutoVarFiles(_)
AutoVarFiles(infos) ==
    IF infos = <<>> THEN <<>>
    ELSE LET name == Head(infos).name
         IN  IF HasSuffix(name, autoVarsSuffix)
                \/ HasSuffix(name, autoVarsSuffix \o JsonSuffix)
             THEN <<name>> \o AutoVarFiles(Tail(infos))
             ELSE AutoVarFiles(Tail(infos))

\* a slip: the auto-loaded files put before the primary files
DefaultVarFilesAutoFirst(d) ==
    AutoVarFiles(ReadDir(d).infos)
    \o (IF StatOk(d, defaultTfFile) THEN <<defaultTfFile>> ELSE <<>>)
    \o (IF StatOk(d, defaultTfFile \o JsonSuffix)
        THEN <<defaultTfFile \o JsonSuffix>> ELSE <<>>)

DefaultVarFiles(d) ==
    (IF StatOk(d, defaultTfFile) THEN <<defaultTfFile>> ELSE <<>>)
    \o (IF StatOk(d, defaultTfFile \o JsonSuffix)
        THEN <<defaultTfFile \o JsonSuffix>> ELSE <<>>)
    \o AutoVarFiles(ReadDir(d).infos)

\* New(initialPath, options...) in a process whose heap is h
NewOn(h, d, options, environ) ==
    ApplyOptions(
        [p |-> [tfEnvVars |-> Nil,
                defaultVarFiles |-> DefaultVarFiles(d),
                tfvarsPaths |-> <<>>,
                inputVars |-> Nil,
                stopOnHCLError |-> FALSE,
                workspaceName |-> "default",
                writeWarning |-> FALSE,
                remoteVariablesLoader |-> FALSE],
         heap |-> h],
        options, d, environ)

\* New(initialPath, options...), the first allocation of the process
New(d, options, environ) == NewOn(<<>>, d, options, environ)

\* ------------------------------------------------------------ errors and results

Err(kind, file) == [kind |-> kind, file |-> file]
NoErr == Err("nil", <<>>)

Module(blocks, vars) == [nil |-> FALSE, Blocks |-> blocks, vars |-> vars]
NilModule == [nil |-> TRUE, Blocks |-> <<>>, vars |-> Nil]

\* ------------------------------------------------------------ the file loader

Eligible(name) == HasSuffix(name, TfSuffix) \/ HasSuffix(name, TfJsonSuffix)

\* hclparse.Parser.ParseHCLFile / ParseJSONFile: a file that cannot be read
\* is not kept; a file that is read is kept in the parser's file table
\* whether or not its parse reports errors
ParseFile(info, stored) ==
    IF info.readable
    THEN [stored |-> stored \cup {info}, hasErrors |-> info.diag]
    ELSE [stored |-> stored, hasErrors |-> TRUE]

\* lines 420-449: the loop over the directory listing; `stored' is the file
\* table of hclParser, `skipped' the files logged as skipped
RECURSIVE ParseDirEntries(_, _, _, _)
ParseDirEntries(infos, stored, skip, stopOnHCLError) ==
    IF infos = <<>>
    THEN [stored |-> stored, skipped |-> skip, err |-> NoErr]
    ELSE LET info == Head(infos)
             r == ParseFile(info, stored)
         IN  IF info.isDir \/ ~Eligible(info.name)
             THEN ParseDirEntries(Tail(infos), stored, skip, stopOnHCLError)
             ELSE IF r.hasErrors /\ stopOnHCLError
             THEN [stored |-> r.stored, skipped |-> skip,
                   err |-> Err("hclDiag", info.name)]
             ELSE ParseDirEntries(
                      Tail(infos), r.stored,
                      IF r.hasErrors THEN skip \cup {info.name} ELSE skip,
                      stopOnHCLError)

\* loadDirectory up to hclParser.Files(): the file table, or the error
loadDirectory(d, stopOnHCLError) ==
    LET l == ReadDir(d)
    IN  IF l.err
        THEN [stored |-> {}, skipped |-> {}, err |-> Err("readDir", <<>>)]
        ELSE ParseDirEntries(l.infos, {}, {}, stopOnHCLError)

\* the orders in which ranging over the map hclParser.Files() can yield it
FileOrders(stored) ==
    LET n == Cardinality(stored)
    IN  {f \in [1..n -> stored] : \A i, j \in 1..n : f[i] = f[j] => i = j}

\* ------------------------------------------------------------ the block constructor

\* loadBlocksFromFile: the top-level blocks of the file's body, or the error
\* of Body.Content
loadBlocksFromFile(file) ==
    IF file.schemaErr
    THEN [blocks |-> <<>>, err |-> Err("loadBlocks", file.name)]
    ELSE [blocks |-> [i \in 1..Len(file.blocks) |->
                        [Type |-> file.blocks[i], Filename |-> file.name,
                         index |-> i]],
          err |-> NoErr]

\* BlockBuilder.NewBlock(fileBlock, nil, nil)
NewBlock(fileBlock) == fileBlock

RECURSIVE parseDirectoryFiles(_, _, _)
parseDirectoryFiles(files, blocks, stopOnHCLError) ==
    IF files = <<>> THEN [blocks |-> blocks, err |-> NoErr]
    ELSE LET r == loadBlocksFromFile(Head(files))
         IN  IF r.err # NoErr
             THEN IF stopOnHCLError
                  THEN [blocks |-> <<>>, err |-> r.err]
                  ELSE parseDirectoryFiles(Tail(files), blocks, stopOnHCLError)
             ELSE parseDirectoryFiles(
                      Tail(files),
                      blocks \o [i \in 1..Len(r.blocks) |-> NewBlock(r.blocks[i])],
                      stopOnHCLError)

\* ------------------------------------------------------------ the variable resolver

\* lines 404-407: every attribute is set to what its expression's Value
\* returns, the diagnostics dropped
RECURSIVE AttrVars(_, _)
AttrVars(attrs, inputVars) ==
    IF attrs = <<>> THEN inputVars
    ELSE AttrVars(Tail(attrs),
                  Overlay(inputVars, Head(attrs).name :> Head(attrs).val))

loadVarFile(d, filename) ==
    IF filename = <<>> THEN [vars |-> EmptyMap, err |-> NoErr]
    ELSE IF ~ReadFileOk(d, filename)
    THEN [vars |-> EmptyMap, err |-> Err("tfvars", filename)]
    ELSE [vars |-> AttrVars(FileNamed(d, filename).attrs, EmptyMap),
          err |-> NoErr]

\* loadAndCombineVars on the content m of combinedVars
loadAndCombineVars(d, filename, m) ==
    LET r == loadVarFile(d, filename)
    IN  IF r.err # NoErr
        THEN [m |-> m, err |-> r.err]
        ELSE [m |-> Overlay(m, r.vars), err |-> NoErr]

\* a slip: the first default file that fails to load ends the loop
RECURSIVE LoadDefaultVarFilesStopping(_, _, _)
LoadDefaultVarFilesStopping(d, names, m) ==
    IF names = <<>> THEN m
    ELSE LET r == loadAndCombineVars(d, Head(names), m)
         IN  IF r.err # NoErr THEN m
             ELSE LoadDefaultVarFilesStopping(d, Tail(names), r.m)

\* lines 353-359: a default file that fails to load is skipped
RECURSIVE LoadDefaultVarFiles(_, _, _)
LoadDefaultVarFiles(d, names, m) ==
    IF names = <<>> THEN m
    ELSE LoadDefaultVarFiles(d, Tail(names),
                             loadAndCombineVars(d, Head(names), m).m)

\* a slip: the explicit files loaded as the default files are, a failure
\* skipped
RECURSIVE LoadExplicitVarFilesSkipping(_, _, _)
LoadExplicitVarFilesSkipping(d, filenames, m) ==
    IF filenames = <<>> THEN [m |-> m, err |-> NoErr]
    ELSE LoadExplicitVarFilesSkipping(
             d, Tail(filenames), loadAndCombineVars(d, Head(filenames), m).m)

\* lines 361-366: the first explicit file that fails to load ends the loop
RECURSIVE LoadExplicitVarFiles(_, _, _)
LoadExplicitVarFiles(d, filenames, m) ==
    IF filenames = <<>> THEN [m |-> m, err |-> NoErr]
    ELSE LET r == loadAndCombineVars(d, Head(filenames), m)
         IN  IF r.err # NoErr THEN r
             ELSE LoadExplicitVarFiles(d, Tail(filenames), r.m)

\* a slip: combinedVars kept in one package-level map
CombinedVarsShared(parser, h) ==
    IF h = <<>>
    THEN [ref |-> Len(h) + 1, heap |-> Alloc(h)]
    ELSE [ref |-> Len(h), heap |-> h]

\* lines 335-338: combinedVars is the Parser's tfEnvVars map itself, or a
\* new map when the Parser has none
CombinedVars(parser, h) ==
    IF parser.tfEnvVars = Nil
    THEN [ref |-> Len(h) + 1, heap |-> Alloc(h)]
    ELSE [ref |-> parser.tfEnvVars, heap |-> h]

\* lines 368-370
InputVarsOf(parser, h) ==
    IF parser.inputVars = Nil THEN EmptyMap ELSE h[parser.inputVars]

\* loadVars(blocks, filenames); rl is the answer of remoteVariablesLoader.Load
loadVars(parser, h, d, filenames, rl) ==
    LET c == CombinedVars(parser, h)
        m0 == c.heap[c.ref]
        m1 == IF parser.remoteVariablesLoader THEN Overlay(m0, rl.vars) ELSE m0
        m2 == LoadDefaultVarFiles(d, parser.defaultVarFiles, m1)
        r3 == LoadExplicitVarFiles(d, filenames, m2)
        m4 == Overlay(r3.m, InputVarsOf(parser, c.heap))
    IN  IF parser.remoteVariablesLoader /\ rl.err
        THEN [vars |-> c.ref, heap |-> c.heap, err |-> Err("remoteVars", <<>>)]
        ELSE IF r3.err # NoErr
        THEN [vars |-> c.ref, heap |-> [c.heap EXCEPT ![c.ref] = r3.m],
              err |-> r3.err]
        ELSE [vars |-> c.ref, heap |-> [c.heap EXCEPT ![c.ref] = m4],
              err |-> NoErr]

\* ------------------------------------------------------------ the orchestrator

\* the collaborators and steps of one ParseDirectory call, in the order of
\* lines 234-297
StageOrder ==
    <<"loadDirectory", "parseDirectoryFiles", "loadVars", "ModuleLoader.Load",
      "NewEvaluator", "MissingVars", "Run">>

\* a slip: the error of a stage not looked at
AfterStageIgnoringErr(err, next) == next

\* "if err != nil { return nil, err }" after a stage: where the call goes on
AfterStage(err, next) == IF err # NoErr THEN "done" ELSE next

\* a slip: an empty block list let through
CheckBlocksLenient(blocks) == NoErr

\* lines 245-247
CheckBlocks(blocks) ==
    IF Len(blocks) = 0 THEN Err("noValidFiles", <<>>) ELSE NoErr

\* a slip: one warning for each missing variable
WarnMissingEach(parser, v, sink) ==
    IF parser.writeWarning
    THEN sink \o [i \in 1..Len(v) |-> [missing |-> <<v[i]>>]]
    ELSE sink

\* lines 285-295: one warning naming every missing variable
WarnMissing(parser, v, sink) ==
    IF Len(v) > 0 /\ parser.writeWarning
    THEN Append(sink, [missing |-> v])
    ELSE sink

\* a slip: Run's Module returned beside Run's error
ReturnOfRunKeepingRoot(root, err) == [module |-> root, err |-> err]

\* lines 297-302: what ParseDirectory returns from Run's answer
ReturnOfRun(root, err) ==
    IF err # NoErr
    THEN [module |-> NilModule, err |-> err]
    ELSE [module |-> root, err |-> NoErr]

\* what Evaluator.MissingVars can answer
MissingChoices == { <<>>, <<NameX, NameY>> }

\* ------------------------------------------------------------ the state

VARIABLES
    dir,        \* the directory initialPath
    given,      \* the environment and project env the Parser was built from
    p,          \* the Parser
    heap,       \* the Go maps, by reference
    pc,         \* where the ParseDirectory call in progress is
    calls,      \* ParseDirectory calls started
    skipped,    \* files loadDirectory logged as skipped
    files,      \* files of loadDirectory
    blocks,     \* blocks of parseDirectoryFiles
    remote,     \* answer of remoteVariablesLoader.Load in this call
    inputVars,  \* the map loadVars returned (a reference)
    evaluator,  \* the Evaluator of this call
    handed,     \* per Evaluator built: the map it was given, as it was then
    missing,    \* answer of evaluator.MissingVars
    warnings,   \* what this call wrote to the warning sink
    ran,        \* answer of evaluator.Run
    ret,        \* what ParseDirectory returned
    trace,      \* the stages of this call, each with whether it succeeded
    conc,       \* several Parsers of one process, each in its loadVars
    cfg         \* the run of LoadConfig

vars ==
    <<dir, given, p, heap, pc, calls, skipped, files, blocks, remote,
      inputVars, evaluator, handed, missing, warnings, ran, ret, trace,
      conc, cfg>>

NoRemote == [vars |-> EmptyMap, err |-> FALSE]
NoEvaluator == [built |-> FALSE, Blocks |-> <<>>, inputVars |-> Nil]
NoReturn == [module |-> NilModule, err |-> NoErr]
NoRun == [root |-> NilModule, err |-> NoErr]

Stage(name, err) == [stage |-> name, ok |-> err = NoErr]

\* no other Parser in the process, and no LoadConfig run
NoParsers == [ps |-> <<>>, heap |-> <<>>, heap0 |-> <<>>]
NoConfigRun == [pc |-> "none"]

EnvSegChoices ==
    {<<>>} \cup {<<WithTFEnvVars(pe)>> : pe \in ProjectEnvChoices}

InputSegChoices ==
    { <<>>,
      <<WithPlanFlagVars(<< <<"x", "=", "e">>, <<"y">>,
                            <<"y", "=", "a", "=", "b">> >>)>>,
      <<WithInputVars((NameX :> <<"f">>) @@ (NameY :> <<"f">>)),
        WithPlanFlagVars(<< <<"x", "=", "e">>, <<"y", "=", "a", "=", "b">>,
                            <<"y">> >>)>> }

RemoteSegChoices ==
    { <<>>, <<WithRemoteVarLoader("host", "")>>,
      <<WithRemoteVarLoader("host", "token")>> }

PathSegChoices ==
    { <<>>, <<WithTFVarsPaths(<<defaultTfFile, mVars, eVars>>)>> }

Init ==
    \E d \in DirChoices, environ \in EnvironChoices, envSeg \in EnvSegChoices,
       inputSeg \in InputSegChoices, remoteSeg \in RemoteSegChoices,
       pathSeg \in PathSegChoices,
       strictSeg \in {<<>>, <<StopOnHCLError>>},
       warnSeg \in {<<>>, <<WithWarningFunc>>} :
        LET options == pathSeg \o strictSeg \o envSeg \o inputSeg
                       \o remoteSeg \o warnSeg
            st == New(d, options, environ)
        IN  /\ dir = d
            /\ given = [environ |-> environ, tfEnv |-> envSeg # <<>>,
                        projectEnv |-> IF envSeg = <<>> THEN EmptyMap
                                       ELSE envSeg[1].env,
                        paths |-> IF pathSeg = <<>> THEN <<>>
                                  ELSE pathSeg[1].paths,
                        inputs |-> inputSeg]
            /\ p = st.p
            /\ heap = st.heap
            /\ pc = "idle"
            /\ calls = 0
            /\ skipped = {}
            /\ files = <<>>
            /\ blocks = <<>>
            /\ remote = NoRemote
            /\ inputVars = Nil
            /\ evaluator = NoEvaluator
            /\ handed = <<>>
            /\ missing = <<>>
            /\ warnings = <<>>
            /\ ran = NoRun
            /\ ret = NoReturn
            /\ trace = <<>>
            /\ conc = NoParsers
            /\ cfg = NoConfigRun

\* lines 229-237: a call begins and loads the directory
LoadFiles ==
    /\ pc \in {"idle", "done"}
    /\ calls < MaxCalls
    /\ calls' = calls + 1
    /\ LET r == loadDirectory(dir, p.stopOnHCLError)
       IN  /\ skipped' = r.skipped
           /\ trace' = <<Stage("loadDirectory", r.err)>>
           /\ IF r.err # NoErr
              THEN /\ files' = <<>>
                   /\ pc' = AfterStage(r.err, "loaded")
                   /\ ret' = [module |-> NilModule, err |-> r.err]
              ELSE /\ files' \in FileOrders(r.stored)
                   /\ pc' = AfterStage(r.err, "loaded")
                   /\ ret' = NoReturn
    /\ blocks' = <<>>
    /\ remote' = NoRemote
    /\ inputVars' = Nil
    /\ evaluator' = NoEvaluator
    /\ missing' = <<>>
    /\ warnings' = <<>>
    /\ ran' = NoRun
    /\ UNCHANGED <<conc, cfg, dir, given, p, heap, handed>>

\* lines 239-247
ConstructBlocks ==
    /\ pc = "loaded"
    /\ LET r == parseDirectoryFiles(files, <<>>, p.stopOnHCLError)
           err == IF r.err # NoErr THEN r.err ELSE CheckBlocks(r.blocks)
       IN  /\ blocks' = r.blocks
           /\ trace' = Append(trace, Stage("parseDirectoryFiles", err))
           /\ pc' = AfterStage(err, "constructed")
           /\ ret' = [module |-> NilModule, err |-> err]
    /\ UNCHANGED <<conc, cfg, dir, given, p, heap, calls, skipped, files, remote,
                   inputVars, evaluator, handed, missing, warnings, ran>>

\* lines 249-253
ResolveVariables ==
    /\ pc = "constructed"
    /\ \E rl \in {[vars |-> EmptyMap, err |-> TRUE]}
                 \cup {[vars |-> m, err |-> FALSE] : m \in RemoteChoices} :
        /\ p.remoteVariablesLoader \/ rl = NoRemote
        /\ LET r == loadVars(p, heap, dir, p.tfvarsPaths, rl)
           IN  /\ remote' = rl
               /\ heap' = r.heap
               /\ inputVars' = r.vars
               /\ trace' = Append(trace, Stage("loadVars", r.err))
               /\ pc' = AfterStage(r.err, "resolved")
               /\ ret' = [module |-> NilModule, err |-> r.err]
    /\ UNCHANGED <<conc, cfg, dir, given, p, calls, skipped, files, blocks, evaluator,
                   handed, missing, warnings, ran>>

\* lines 255-259
LoadModules ==
    /\ pc = "resolved"
    /\ \E err \in {NoErr, Err("modules", <<>>)} :
        /\ trace' = Append(trace, Stage("ModuleLoader.Load", err))
        /\ pc' = AfterStage(err, "modulesLoaded")
        /\ ret' = [module |-> NilModule, err |-> err]
    /\ UNCHANGED <<conc, cfg, dir, given, p, heap, calls, skipped, files, blocks, remote,
                   inputVars, evaluator, handed, missing, warnings, ran>>

\* lines 261-283
BuildEvaluator ==
    /\ pc = "modulesLoaded"
    /\ \E err \in {NoErr, Err("getwd", <<>>)} :
        /\ trace' = Append(trace, Stage("NewEvaluator", err))
        /\ pc' = AfterStage(err, "evaluator")
        /\ ret' = [module |-> NilModule, err |-> err]
        /\ IF err # NoErr
           THEN UNCHANGED <<evaluator, handed>>
           ELSE /\ evaluator' = [built |-> TRUE, Blocks |-> blocks,
                                 inputVars |-> inputVars]
                /\ handed' = Append(handed, [ref |-> inputVars,
                                             vars |-> heap[inputVars]])
    /\ UNCHANGED <<conc, cfg, dir, given, p, heap, calls, skipped, files, blocks, remote,
                   inputVars, missing, warnings, ran>>

\* lines 285-295
ReportMissingVars ==
    /\ pc = "evaluator"
    /\ \E v \in MissingChoices :
        /\ missing' = v
        /\ warnings' = WarnMissing(p, v, warnings)
    /\ trace' = Append(trace, Stage("MissingVars", NoErr))
    /\ pc' = "checked"
    /\ UNCHANGED <<conc, cfg, dir, given, p, heap, calls, skipped, files, blocks, remote,
                   inputVars, evaluator, handed, ran, ret>>

\* lines 297-302; Run answers the root Module, or an error beside no Module
\* or beside the Module as far as it got
Evaluate ==
    /\ pc = "checked"
    /\ \E r \in { [root |-> Module(evaluator.Blocks, evaluator.inputVars),
                   err |-> NoErr],
                  [root |-> NilModule, err |-> Err("evaluate", <<>>)],
                  [root |-> Module(<<>>, evaluator.inputVars),
                   err |-> Err("evaluate", <<>>)] } :
        /\ ran' = r
        /\ ret' = ReturnOfRun(r.root, r.err)
        /\ trace' = Append(trace, Stage("Run", r.err))
    /\ pc' = "done"
    /\ UNCHANGED <<conc, cfg, dir, given, p, heap, calls, skipped, files, blocks, remote,
                   inputVars, evaluator, handed, missing, warnings>>

Next ==
    \/ LoadFiles
    \/ ConstructBlocks
    \/ ResolveVariables
    \/ LoadModules
    \/ BuildEvaluator
    \/ ReportMissingVars
    \/ Evaluate

Spec == Init /\ [][Next]_vars

\* ------------------------------------------------------------ several Parsers

\* Parsers that one process builds and runs at the same time
NumParsers == 2

\* directories with default variable files
ConcDirChoices ==
    {d \in DirChoices : d.readable /\ DefaultVarFiles(d) # <<>>}

\* option lists; a list chosen for two Parsers is the same option values
\* (and the same input map) handed to both New calls
ConcOptionChoices ==
    { <<WithTFEnvVars(((TFVarPrefix \o NameX) :> <<"b">>)),
        WithInputVars((NameY :> <<"f">>))>>,
      <<WithTFVarsPaths(<<defaultTfFile, mVars, eVars>>),
        WithPlanFlagVars(<< <<"x", "=", "e">> >>),
        WithRemoteVarLoader("host", "token")>> }

\* a Parser and where its loadVars call is
ParserRun(parser, d) ==
    [p |-> parser, d |-> d, pc |-> "ready", i |-> 1, vars |-> Nil,
     rl |-> NoRemote, err |-> NoErr]

\* one New call per element of builds, each on the heap the earlier left
RECURSIVE NewParsers(_, _, _)
NewParsers(h, builds, environ) ==
    IF builds = <<>> THEN [ps |-> <<>>, heap |-> h]
    ELSE LET st == NewOn(h, Head(builds).d, Head(builds).options, environ)
             rest == NewParsers(st.heap, Tail(builds), environ)
         IN  [ps |-> <<ParserRun(st.p, Head(builds).d)>> \o rest.ps,
              heap |-> rest.heap]

\* the one-Parser state, at rest
OneParserIdle ==
    LET d == CHOOSE x \in DirChoices : ~x.readable
        st == New(d, <<>>, <<>>)
    IN  /\ dir = d
        /\ given = [environ |-> <<>>, tfEnv |-> FALSE,
                    projectEnv |-> EmptyMap, paths |-> <<>>,
                    inputs |-> <<>>]
        /\ p = st.p
        /\ heap = st.heap
        /\ pc = "idle"
        /\ calls = 0
        /\ skipped = {}
        /\ files = <<>>
        /\ blocks = <<>>
        /\ remote = NoRemote
        /\ inputVars = Nil
        /\ evaluator = NoEvaluator
        /\ handed = <<>>
        /\ missing = <<>>
        /\ warnings = <<>>
        /\ ran = NoRun
        /\ ret = NoReturn
        /\ trace = <<>>

oneParser ==
    <<dir, given, p, heap, pc, calls, skipped, files, blocks, remote,
      inputVars, evaluator, handed, missing, warnings, ran, ret, trace>>

InitConc ==
    /\ \E builds \in [1..NumParsers ->
                        [d : ConcDirChoices, options : ConcOptionChoices]],
          environ \in EnvironChoices :
        LET r == NewParsers(<<>>, builds, environ)
        IN  conc = [ps |-> r.ps, heap |-> r.heap, heap0 |-> r.heap]
    /\ cfg = NoConfigRun
    /\ OneParserIdle

\* lines 335-351 in Parser i: combinedVars, then the remote variables
VarsStart(i) ==
    /\ conc.ps[i].pc = "ready"
    /\ \E rl \in {[vars |-> EmptyMap, err |-> TRUE]}
                 \cup {[vars |-> m, err |-> FALSE] : m \in RemoteChoices} :
        LET P == conc.ps[i]
            c == CombinedVars(P.p, conc.heap)
            failed == P.p.remoteVariablesLoader /\ rl.err
        IN  /\ P.p.remoteVariablesLoader \/ rl = NoRemote
            /\ conc' =
                 [conc EXCEPT
                    !.heap = IF P.p.remoteVariablesLoader /\ ~rl.err
                             THEN [c.heap EXCEPT
                                     ![c.ref] = Overlay(@, rl.vars)]
                             ELSE c.heap,
                    !.ps[i] = [P EXCEPT
                                 !.vars = c.ref, !.rl = rl,
                                 !.err = IF failed THEN Err("remoteVars", <<>>)
                                         ELSE NoErr,
                                 !.pc = IF failed THEN "returned"
                                        ELSE "defaults"]]
    /\ UNCHANGED <<cfg, oneParser>>

\* lines 353-359 in Parser i: the loop test, or one default file
VarsDefault(i) ==
    /\ conc.ps[i].pc = "defaults"
    /\ LET P == conc.ps[i]
           names == P.p.defaultVarFiles
       IN  IF P.i > Len(names)
           THEN conc' = [conc EXCEPT !.ps[i].pc = "explicit", !.ps[i].i = 1]
           ELSE conc' =
                  [conc EXCEPT
                     !.heap[P.vars] =
                         loadAndCombineVars(P.d, names[P.i], @).m,
                     !.ps[i].i = @ + 1]
    /\ UNCHANGED <<cfg, oneParser>>

\* lines 361-366 in Parser i: the loop test, or one explicit file
VarsExplicit(i) ==
    /\ conc.ps[i].pc = "explicit"
    /\ LET P == conc.ps[i]
           filenames == P.p.tfvarsPaths
       IN  IF P.i > Len(filenames)
           THEN conc' = [conc EXCEPT !.ps[i].pc = "inputs"]
           ELSE LET r == loadAndCombineVars(P.d, filenames[P.i],
                                            conc.heap[P.vars])
                IN  IF r.err # NoErr
                    THEN conc' = [conc EXCEPT !.ps[i].err = r.err,
                                              !.ps[i].pc = "returned"]
                    ELSE conc' = [conc EXCEPT !.heap[P.vars] = r.m,
                                              !.ps[i].i = @ + 1]
    /\ UNCHANGED <<cfg, oneParser>>

\* lines 368-372 in Parser i
VarsInputs(i) ==
    /\ conc.ps[i].pc = "inputs"
    /\ LET P == conc.ps[i]
       IN  conc' = [conc EXCEPT
                      !.heap[P.vars] = Overlay(@, InputVarsOf(P.p, conc.heap)),
                      !.ps[i].pc = "returned"]
    /\ UNCHANGED <<cfg, oneParser>>

NextConc ==
    \/ \E i \in 1..NumParsers : VarsStart(i)
    \/ \E i \in 1..NumParsers : VarsDefault(i)
    \/ \E i \in 1..NumParsers : VarsExplicit(i)
    \/ \E i \in 1..NumParsers : VarsInputs(i)

SpecConc == InitConc /\ [][NextConc]_vars

\* ------------------------------------------------------------ the configuration

DefaultEndpoint == "https://pricing.api.infracost.io"
OtherEndpoint == "https://pricing.example"

\* lines 115-138: the fields that loading reads or writes
defaultConfigSpec ==
    [LogLevel |-> "", NoColor |-> FALSE, APIKey |-> "",
     PricingAPIEndpoint |-> DefaultEndpoint]

\* a config file: whether it exists, can be read, is well-formed YAML, and
\* the fields it sets
ConfigFile(readable, yamlOk, sets) ==
    [exists |-> TRUE, readable |-> readable, yamlOk |-> yamlOk,
     sets |-> sets]
NoFile == [exists |-> FALSE, readable |-> FALSE, yamlOk |-> FALSE,
           sets |-> <<>>]

NoConfigErr == "nil"

\* mergeConfigFileIfExists(configFile) on the Config config; fs holds the
\* file at the named path and the file at defaultConfigFilePath()
mergeConfigFileIfExists(config, configFile, fs) ==
    IF configFile # "" /\ ~fs.named.exists
    THEN [Config |-> config, err |-> "Config file does not exist"]
    ELSE LET file == IF configFile = "" THEN fs.default ELSE fs.named
         IN  IF configFile = "" /\ ~file.exists
             THEN [Config |-> config, err |-> NoConfigErr]
             ELSE IF ~file.readable
             THEN [Config |-> config, err |-> "ReadFile"]
             ELSE IF ~file.yamlOk
             THEN [Config |-> config, err |-> "yaml"]
             ELSE [Config |-> Overlay(config, file.sets),
                   err |-> NoConfigErr]

\* godotenv.Load of one file: the variables it holds are set unless the
\* environment has them already
LoadDotFile(env, file) ==
    IF ~file.exists THEN [env |-> env, err |-> NoConfigErr]
    ELSE IF ~file.yamlOk THEN [env |-> env, err |-> "godotenv"]
    ELSE [env |-> Overlay(file.sets, env), err |-> NoConfigErr]

\* loadDotEnv(): .env.local of the root directory, then .env
loadDotEnv(env, dotfiles) ==
    LET r == LoadDotFile(env, dotfiles.local)
    IN  IF r.err # NoConfigErr THEN r ELSE LoadDotFile(r.env, dotfiles.dot)

\* the fields of ConfigSpec in the order of the struct, each with the
\* environment variable envconfig reads it from
EnvFields ==
    << [name |-> "LogLevel", key |-> "LOG_LEVEL", bool |-> FALSE],
       [name |-> "NoColor", key |-> "NO_COLOR", bool |-> TRUE],
       [name |-> "APIKey", key |-> "INFRACOST_API_KEY", bool |-> FALSE],
       [name |-> "PricingAPIEndpoint",
        key |-> "INFRACOST_PRICING_API_ENDPOINT", bool |-> FALSE] >>

\* strconv.ParseBool
TrueStrings == {"1", "t", "T", "TRUE", "true", "True"}
FalseStrings == {"0", "f", "F", "FALSE", "false", "False"}

\* envconfig.Process: the fields in order, each set from its variable when
\* the environment has it; the first value that does not parse ends the
\* processing with an error, the later fields left as they were
RECURSIVE envconfigProcess(_, _, _)
envconfigProcess(config, env, fields) ==
    IF fields = <<>> THEN [Config |-> config, err |-> NoConfigErr]
    ELSE LET f == Head(fields)
         IN  IF f.key \notin DOMAIN env
             THEN envconfigProcess(config, env, Tail(fields))
             ELSE IF ~f.bool
             THEN envconfigProcess([config EXCEPT ![f.name] = env[f.key]],
                                   env, Tail(fields))
             ELSE IF env[f.key] \in TrueStrings \cup FalseStrings
             THEN envconfigProcess(
                      [config EXCEPT ![f.name] = env[f.key] \in TrueStrings],
                      env, Tail(fields))
             ELSE [Config |-> config, err |-> "envconfig"]

\* logrus.ParseLevel
LevelStrings ==
    {"panic", "fatal", "error", "warn", "warning", "info", "debug", "trace"}

\* the inputs of a LoadConfig call
ConfigFileChoices ==
    { NoFile,
      ConfigFile(TRUE, TRUE, ("APIKey" :> "file-key")),
      ConfigFile(TRUE, TRUE, ("PricingAPIEndpoint" :> OtherEndpoint)
                             @@ ("LogLevel" :> "info")),
      ConfigFile(TRUE, FALSE, <<>>),
      ConfigFile(FALSE, TRUE, <<>>) }

ProcessEnvChoices ==
    { <<>>,
      ("INFRACOST_API_KEY" :> "env-key"),
      ("INFRACOST_API_KEY" :> "env-key") @@ ("NO_COLOR" :> "true"),
      ("INFRACOST_API_KEY" :> "env-key") @@ ("NO_COLOR" :> "yes"),
      ("LOG_LEVEL" :> "loud"),
      ("INFRACOST_PRICING_API_ENDPOINT" :> OtherEndpoint) }

DotEnvChoices ==
    { [local |-> NoFile, dot |-> NoFile],
      [local |-> ConfigFile(TRUE, TRUE, ("INFRACOST_API_KEY" :> "local-key")),
       dot |-> ConfigFile(TRUE, TRUE, ("INFRACOST_API_KEY" :> "dot-key")
                                      @@ ("LOG_LEVEL" :> "debug"))],
      [local |-> NoFile, dot |-> ConfigFile(TRUE, FALSE, <<>>)] }

\* what loadCredentials finds stored: profiles by pricing API endpoint
StoredChoices ==
    { <<>>,
      (DefaultEndpoint :> [APIKey |-> "stored-key"]),
      (OtherEndpoint :> [APIKey |-> "other-key"]) }

\* the LoadConfig call has not begun
ConfigRun(configFile, fs, env, dotfiles, stored) ==
    [pc |-> "start", configFile |-> configFile, fs |-> fs, env |-> env,
     dotfiles |-> dotfiles, stored |-> stored,
     Config |-> defaultConfigSpec, Credentials |-> <<>>,
     err |-> NoConfigErr]

InitConfig ==
    /\ \E configFile \in {"", "named.yml"},
          named \in ConfigFileChoices, default \in ConfigFileChoices,
          env \in ProcessEnvChoices, dotfiles \in DotEnvChoices,
          stored \in StoredChoices :
        cfg = ConfigRun(configFile, [named |-> named, default |-> default],
                        env, dotfiles, stored)
    /\ conc = NoParsers
    /\ OneParserIdle

\* log.Fatal(err): the process ends
Fatal(err) == [cfg EXCEPT !.pc = "fatal", !.err = err]

\* lines 95-100
MergeConfigFile ==
    /\ cfg.pc = "start"
    /\ LET r == mergeConfigFileIfExists(defaultConfigSpec, cfg.configFile,
                                        cfg.fs)
       IN  cfg' = IF r.err # NoConfigErr
                  THEN [Fatal(r.err) EXCEPT !.Config = r.Config]
                  ELSE [cfg EXCEPT !.pc = "merged", !.Config = r.Config]
    /\ UNCHANGED <<conc, oneParser>>

\* lines 102-105
LoadDotEnv ==
    /\ cfg.pc = "merged"
    /\ LET r == loadDotEnv(cfg.env, cfg.dotfiles)
       IN  cfg' = IF r.err # NoConfigErr
                  THEN [Fatal(r.err) EXCEPT !.env = r.env]
                  ELSE [cfg EXCEPT !.pc = "dotenv", !.env = r.env]
    /\ UNCHANGED <<conc, oneParser>>

\* lines 107-112: the error of envconfig.Process is not returned
ProcessEnv ==
    /\ cfg.pc = "dotenv"
    /\ cfg' = [cfg EXCEPT
                 !.pc = "loaded",
                 !.Config = envconfigProcess(cfg.Config, cfg.env,
                                             EnvFields).Config]
    /\ UNCHANGED <<conc, oneParser>>

\* lines 65-68 and 195-209
ConfigureLogger ==
    /\ cfg.pc = "loaded"
    /\ cfg' = IF cfg.Config.LogLevel # ""
                 /\ cfg.Config.LogLevel \notin LevelStrings
              THEN Fatal("ParseLevel")
              ELSE [cfg EXCEPT !.pc = "logger"]
    /\ UNCHANGED <<conc, oneParser>>

\* lines 70-73
LoadCredentials ==
    /\ cfg.pc = "logger"
    /\ \E failed \in BOOLEAN :
        cfg' = IF failed THEN Fatal("loadCredentials")
               ELSE [cfg EXCEPT !.pc = "credentials",
                                !.Credentials = cfg.stored]
    /\ UNCHANGED <<conc, oneParser>>

\* lines 75-79: an error of the migration is logged only
MigrateCredentials ==
    /\ cfg.pc = "credentials"
    /\ cfg' = [cfg EXCEPT !.pc = "migrated"]
    /\ UNCHANGED <<conc, oneParser>>

\* lines 81-84
ApplyProfile ==
    /\ cfg.pc = "migrated"
    /\ LET ok == cfg.Config.PricingAPIEndpoint \in DOMAIN cfg.Credentials
       IN  cfg' = IF ok /\ cfg.Config.APIKey = ""
                  THEN [cfg EXCEPT
                          !.pc = "profile",
                          !.Config.APIKey =
                              cfg.Credentials[
                                  cfg.Config.PricingAPIEndpoint].APIKey]
                  ELSE [cfg EXCEPT !.pc = "profile"]
    /\ UNCHANGED <<conc, oneParser>>

\* lines 86-89
LoadState ==
    /\ cfg.pc = "profile"
    /\ \E failed \in BOOLEAN :
        cfg' = IF failed THEN Fatal("loadState")
               ELSE [cfg EXCEPT !.pc = "state"]
    /\ UNCHANGED <<conc, oneParser>>

\* line 91
LoadEnvironment ==
    /\ cfg.pc = "state"
    /\ cfg' = [cfg EXCEPT !.pc = "done"]
    /\ UNCHANGED <<conc, oneParser>>

NextConfig ==
    \/ MergeConfigFile
    \/ LoadDotEnv
    \/ ProcessEnv
    \/ ConfigureLogger
    \/ LoadCredentials
    \/ MigrateCredentials
    \/ ApplyProfile
    \/ LoadState
    \/ LoadEnvironment

SpecConfig == InitConfig /\ [][NextConfig]_vars

\* ------------------------------------------------------------ the claims

\* the stages of the call in progress that have run
Ran(i) == Len(trace) >= i
\* loadVars has returned without error in the call in progress
Resolved == Ran(3) /\ trace[3].ok

\* the six sources of the call in progress, lowest precedence first
SrcOsEnv ==
    IF given.tfEnv THEN EnvironVars(given.environ, EmptyMap) ELSE EmptyMap
SrcProjectEnv ==
    IF given.tfEnv THEN ProjectVars(given.projectEnv) ELSE EmptyMap
SrcRemote == IF p.remoteVariablesLoader THEN remote.vars ELSE EmptyMap
SrcDefaultFiles == LoadDefaultVarFiles(dir, p.defaultVarFiles, EmptyMap)
SrcExplicitFiles == LoadExplicitVarFiles(dir, p.tfvarsPaths, EmptyMap).m
SrcDirect == InputVarsOf(p, heap)
Sources ==
    <<SrcOsEnv, SrcProjectEnv, SrcRemote, SrcDefaultFiles, SrcExplicitFiles,
      SrcDirect>>
SourcesWith(name) == {i \in 1..Len(Sources) : name \in DOMAIN Sources[i]}
Highest(name) ==
    CHOOSE i \in SourcesWith(name) : \A j \in SourcesWith(name) : j <= i
AllNames == UNION {DOMAIN Sources[i] : i \in 1..Len(Sources)}

\* the environment-derived variables the Parser was built with
EnvVarsAtNew == Overlay(SrcOsEnv, SrcProjectEnv)

\* C1: a variable that two or more of the six sources set to distinct
\* values resolves, when loadVars returns without error, to the value of the
\* highest-precedence source that sets it: direct input > explicit files >
\* default files > remote > project env > OS env.
C1_Precedence ==
    Resolved =>
        \A name \in AllNames :
            (\E i, j \in SourcesWith(name) :
                Sources[i][name] # Sources[j][name])
            => /\ name \in DOMAIN heap[inputVars]
               /\ heap[inputVars][name] = Sources[Highest(name)][name]

\* C1 on the first ParseDirectory call of a Parser only
C1_FirstCall == calls = 1 => C1_Precedence

\* C2: in non-strict mode no block of a file that loadDirectory reported as
\* skipped is in the block sequence handed on to variable resolution and
\* the Evaluator.
C2_SkippedFilesExcluded ==
    (~p.stopOnHCLError /\ Ran(2)) =>
        \A i \in 1..Len(blocks) : blocks[i].Filename \notin skipped

EligibleFiles == {e \in dir.entries : ~e.isDir /\ Eligible(e.name)}
AllFilesFail ==
    /\ dir.readable
    /\ EligibleFiles # {}
    /\ \A e \in EligibleFiles : ParseFile(e, {}).hasErrors
FirstFailing ==
    CHOOSE e \in EligibleFiles :
        \A o \in EligibleFiles \ {e} : StrLess(e.name, o.name)

\* C3: when every eligible file of the directory fails to parse,
\* ParseDirectory returns no Module and, in non-strict mode, the "no valid
\* terraform files found" error, in strict mode the parse error of the first
\* failing file.
C3_AllFilesFail ==
    (pc = "done" /\ AllFilesFail) =>
        /\ ret.module = NilModule
        /\ ret.err = IF p.stopOnHCLError
                     THEN Err("hclDiag", FirstFailing.name)
                     ELSE Err("noValidFiles", <<>>)

Unreadable(paths) == {i \in 1..Len(paths) : ~ReadFileOk(dir, paths[i])}
Malformed(paths) ==
    {i \in 1..Len(paths) :
        ReadFileOk(dir, paths[i]) /\ FileNamed(dir, paths[i]).diag}

\* C4 as stated: an explicit variable file that exists but is malformed
\* makes loadVars return an error, and ParseDirectory returns it without
\* loading modules or evaluating.
C4_MalformedAborts ==
    (Ran(3) /\ Malformed(p.tfvarsPaths) # {}) =>
        /\ ~trace[3].ok
        /\ pc = "done"
        /\ ret.err # NoErr
        /\ ret.module = NilModule

\* C4 as amended: an explicit variable file that exists but cannot be read
\* when it is loaded makes loadVars return an error, and ParseDirectory
\* returns it without loading modules or evaluating; a file that can be
\* read, malformed or not, never makes loadVars fail.
C4_UnreadableAborts ==
    Ran(3) =>
        /\ Unreadable(p.tfvarsPaths) # {} =>
              /\ ~trace[3].ok
              /\ Len(trace) = 3
              /\ pc = "done"
              /\ ret.module = NilModule
              /\ ret.err # NoErr
              /\ ~(p.remoteVariablesLoader /\ remote.err) =>
                    \E i \in Unreadable(p.tfvarsPaths) :
                        /\ ret.err = Err("tfvars", p.tfvarsPaths[i])
                        /\ \A j \in Unreadable(p.tfvarsPaths) : i <= j
        /\ (Unreadable(p.tfvarsPaths) = {}
            /\ ~(p.remoteVariablesLoader /\ remote.err)) => trace[3].ok

C4_Witness ==
    /\ pc = "done"
    /\ ret.err.kind = "tfvars"
    /\ Unreadable(p.tfvarsPaths) # {}

\* C5: ParseDirectory returns either the root Module of Evaluator.Run with a
\* nil error, or a nil Module with an error; never both, never neither.
C5_ExactlyOneResult ==
    pc = "done" =>
        \/ /\ ret.err = NoErr
           /\ ~ret.module.nil
           /\ Ran(7) /\ trace[7].ok
           /\ ret.module = ran.root
        \/ /\ ret.err # NoErr
           /\ ret.module = NilModule

C5_Witness ==
    /\ pc = "done"
    /\ ret.err # NoErr
    /\ ~ran.root.nil

\* C6: the stages run in the fixed order, each at most once per call and
\* only after the one before it succeeded; after a stage failed the call is
\* over and no later stage has run.
C6_StageOrder ==
    /\ Len(trace) <= Len(StageOrder)
    /\ \A i \in 1..Len(trace) :
        /\ trace[i].stage = StageOrder[i]
        /\ i < Len(trace) => trace[i].ok
    /\ (\E i \in 1..Len(trace) : ~trace[i].ok) =>
        /\ pc = "done"
        /\ ret.err # NoErr

C6_Witness ==
    /\ pc = "done"
    /\ Len(trace) = 3
    /\ ~trace[3].ok
    /\ calls = 2

\* C7: when the remote loader fails, loadVars returns an error beside a
\* mapping that holds exactly the environment-derived and project-scoped
\* environment variables, and ParseDirectory ends with that error.
C7_RemoteFailure ==
    (Ran(3) /\ p.remoteVariablesLoader /\ remote.err) =>
        /\ ret.err = Err("remoteVars", <<>>)
        /\ pc = "done"
        /\ heap[inputVars] = EnvVarsAtNew

\* C7 on the first ParseDirectory call of a Parser only
C7_FirstCall == calls = 1 => C7_RemoteFailure

\* C8: MissingVars is asked after the Evaluator is built and before Run; it
\* never ends the call; the sink gets one warning naming all the missing
\* variables when there are some and a sink is set, and nothing otherwise;
\* Run follows in every case.
C8_MissingVarsWarning ==
    /\ ~Ran(6) => warnings = <<>>
    /\ Ran(6) =>
        /\ trace[5] = Stage("NewEvaluator", NoErr)
        /\ trace[6] = Stage("MissingVars", NoErr)
        /\ warnings = IF missing # <<>> /\ p.writeWarning
                      THEN <<[missing |-> missing]>>
                      ELSE <<>>
        /\ \/ pc = "checked" /\ Len(trace) = 6
           \/ pc = "done" /\ Len(trace) = 7 /\ trace[7].stage = "Run"
    /\ pc = "checked" => ENABLED Evaluate

C8_Witness ==
    /\ pc = "done"
    /\ Ran(7)
    /\ Len(missing) = 2
    /\ Len(warnings) = 1

\* C9: variable resolution leaves the Parser's tfEnvVars map as it was
\* built, and the map handed to an Evaluator is never modified afterwards.
C9_Ownership ==
    /\ p.tfEnvVars # Nil => heap[p.tfEnvVars] = EnvVarsAtNew
    /\ \A i \in 1..Len(handed) : heap[handed[i].ref] = handed[i].vars

\* the second part of C9 alone
C9_HandedUnchanged ==
    \A i \in 1..Len(handed) : heap[handed[i].ref] = handed[i].vars

\* the overlay of the six sources, lowest precedence first
RECURSIVE OverlayAll(_)
OverlayAll(maps) ==
    IF maps = <<>> THEN EmptyMap
    ELSE Overlay(OverlayAll(SubSeq(maps, 1, Len(maps) - 1)), maps[Len(maps)])

\* C10: the mapping loadVars returns is a function of the current contents
\* of the sources alone, whatever an earlier resolution returned.
C10_Determinism == Resolved => heap[inputVars] = OverlayAll(Sources)

\* C10 on the first ParseDirectory call of a Parser only
C10_FirstCall == calls = 1 => C10_Determinism

\* C11: the blocks are in directory-listing order of their files and, within
\* a file, in source order.
C11_BlockOrder ==
    (Ran(2) /\ trace[2].ok) =>
        \A i, j \in 1..Len(blocks) :
            i < j =>
                \/ StrLess(blocks[i].Filename, blocks[j].Filename)
                \/ /\ blocks[i].Filename = blocks[j].Filename
                   /\ blocks[i].index < blocks[j].index

\* within a file the blocks are in source order
C11_SourceOrderInFile ==
    (Ran(2) /\ trace[2].ok) =>
        \A i, j \in 1..Len(blocks) :
            (i < j /\ blocks[i].Filename = blocks[j].Filename)
            => /\ blocks[i].index < blocks[j].index
               /\ \A k \in i..j : blocks[k].Filename = blocks[i].Filename

\* what Parser i's loadVars returns when no other Parser runs
AloneResult(i) ==
    LET P == conc.ps[i]
        r == loadVars(P.p, conc.heap0, P.d, P.p.tfvarsPaths, P.rl)
    IN  [vars |-> r.heap[r.vars], err |-> r.err]

\* the maps Parser i holds
MapsOf(i) ==
    {conc.ps[i].p.tfEnvVars, conc.ps[i].p.inputVars, conc.ps[i].vars} \ {Nil}

\* C12: Parsers running at the same time hold no map in common, and what
\* each one's loadVars returns is what it returns when that Parser runs
\* alone, whatever options the others were built with.
C12_Isolation ==
    \A i \in DOMAIN conc.ps :
        /\ \A j \in DOMAIN conc.ps : i # j => MapsOf(i) \cap MapsOf(j) = {}
        /\ conc.ps[i].pc = "returned"
           => /\ conc.heap[conc.ps[i].vars] = AloneResult(i).vars
              /\ conc.ps[i].err = AloneResult(i).err

\* two Parsers built with the same options on different directories have
\* both returned, with different mappings
C12_Witness ==
    /\ Len(conc.ps) >= 2
    /\ conc.ps[1].p.tfEnvVars # Nil
    /\ conc.ps[2].p.tfEnvVars # Nil
    /\ conc.ps[1].d # conc.ps[2].d
    /\ conc.ps[1].pc = "returned"
    /\ conc.ps[2].pc = "returned"
    /\ conc.ps[1].err = NoErr
    /\ conc.ps[2].err = NoErr
    /\ conc.heap[conc.ps[1].vars] # conc.heap[conc.ps[2].vars]

\* an environment entry KEY=value read at its first "="
FirstEq(e) ==
    CHOOSE i \in 1..Len(e) : e[i] = Eq /\ \A j \in 1..(i - 1) : e[j] # Eq
OsEntries ==
    { [k |-> SubSeq(e, 1, FirstEq(e) - 1),
       v |-> SubSeq(e, FirstEq(e) + 1, Len(e))] :
        e \in {given.environ[i] : i \in 1..Len(given.environ)} }
ProjectEntries ==
    { [k |-> k, v |-> given.projectEnv[k]] : k \in DOMAIN given.projectEnv }
Stripped(k) == SubSeq(k, Len(TFVarPrefix) + 1, Len(k))
Prefixed(entries) == {e \in entries : HasPrefix(e.k, TFVarPrefix)}
\* the Parser as New returned it, before any ParseDirectory call
Built == pc = "idle" /\ calls = 0

\* the project entries with the prefix are mapped to their values
C13_ProjectEnv ==
    (Built /\ given.tfEnv) =>
        \A e \in Prefixed(ProjectEntries) :
            /\ Stripped(e.k) \in DOMAIN heap[p.tfEnvVars]
            /\ heap[p.tfEnvVars][Stripped(e.k)] = StringVal(e.v)

\* no other key is in the environment-derived source
C13_OnlyPrefixed ==
    (Built /\ given.tfEnv) =>
        \A name \in DOMAIN heap[p.tfEnvVars] :
            \E e \in Prefixed(OsEntries) \cup Prefixed(ProjectEntries) :
                Stripped(e.k) = name

\* C13: every environment entry, of the OS environment or of the project
\* map, whose key starts with TF_VAR_ is in the environment-derived source
\* under the key without the prefix, with exactly its value as a string (a
\* project entry wins over an OS entry of the same key); no other key is.
C13_EnvConvention ==
    /\ C13_ProjectEnv
    /\ C13_OnlyPrefixed
    /\ (Built /\ given.tfEnv) =>
          \A e \in Prefixed(OsEntries) :
              (\A q \in Prefixed(ProjectEntries) : q.k # e.k)
              => /\ Stripped(e.k) \in DOMAIN heap[p.tfEnvVars]
                 /\ heap[p.tfEnvVars][Stripped(e.k)] = StringVal(e.v)

\* the direct inputs the options of the Parser ask for, applied in order,
\* an assignment read at its "=" when it has exactly one
EqCount(v) == Cardinality({i \in 1..Len(v) : v[i] = Eq})
RECURSIVE WellFormedFlags(_)
WellFormedFlags(vs) ==
    IF vs = <<>> THEN EmptyMap
    ELSE LET v == Head(vs)
         IN  IF EqCount(v) = 1
             THEN Overlay(SubSeq(v, 1, FirstEq(v) - 1)
                              :> StringVal(SubSeq(v, FirstEq(v) + 1, Len(v))),
                          WellFormedFlags(Tail(vs)))
             ELSE WellFormedFlags(Tail(vs))
RECURSIVE DirectInputsAsked(_)
DirectInputsAsked(options) ==
    IF options = <<>> THEN EmptyMap
    ELSE LET o == Head(options)
             m == IF o.op = "PlanFlagVars" THEN WellFormedFlags(o.vs)
                  ELSE [k \in DOMAIN o.vars |-> StringVal(o.vars[k])]
         IN  Overlay(m, DirectInputsAsked(Tail(options)))
\* the assignments given that are not of the form name=value
MalformedFlags ==
    UNION { {o.vs[i] : i \in {j \in 1..Len(o.vs) : EqCount(o.vs[j]) # 1}} :
            o \in {given.inputs[i] : i \in 1..Len(given.inputs)} }

\* C14: the direct inputs of a Parser are the name -> value of every
\* assignment with exactly one "=", over what earlier options set; an
\* assignment with no "=" or more than one adds no key and changes none.
C14_PlanFlagVars ==
    given.inputs # <<>> =>
        /\ p.inputVars # Nil
        /\ heap[p.inputVars] = DirectInputsAsked(given.inputs)

\* a malformed assignment for y was given after an option that set y, and
\* y keeps that option's value
C14_Witness ==
    /\ Built
    /\ <<"y", "=", "a", "=", "b">> \in MalformedFlags
    /\ Len(given.inputs) = 2
    /\ heap[p.inputVars] =
         (NameX :> StringVal(<<"e">>)) @@ (NameY :> StringVal(<<"f">>))

\* the path names a file of the directory
ExistsInDir(name) == \E e \in dir.entries : e.name = name
\* the loadVars of the call in progress returned an error
ResolutionFailed == Ran(3) /\ ~trace[3].ok

\* C15: tfvarsPaths is the explicit paths given that exist, in the order
\* given; a path that does not exist is not in it, and the error of a
\* resolution never names it.
C15_MissingPathsDropped ==
    /\ p.tfvarsPaths = SelectSeq(given.paths, ExistsInDir)
    /\ (ResolutionFailed /\ ret.err.kind = "tfvars")
       => /\ ExistsInDir(ret.err.file)
          /\ \E i \in 1..Len(p.tfvarsPaths) : p.tfvarsPaths[i] = ret.err.file

\* three paths were given, the second does not exist; the other two are
\* kept in order and the resolution succeeds
C15_Witness ==
    /\ Resolved
    /\ given.paths = <<defaultTfFile, mVars, eVars>>
    /\ ~ExistsInDir(mVars)
    /\ p.tfvarsPaths = <<defaultTfFile, eVars>>

\* os.ReadFile of the file succeeds
CanBeRead(name) ==
    \E e \in dir.entries : e.name = name /\ e.readable /\ ~e.isDir
\* a step of the call from one stage to the next
StageStep(from) == pc = from /\ pc' # from

\* C16: a default variable file that fails to load changes nothing: what
\* loadVars does (the map it returns, every map of the Parser, and whether
\* it returns an error) is what it does with the failing default files left
\* out of defaultVarFiles, and an error it returns comes from the remote
\* loader or from an explicit file.
C16_DefaultFileFailureSkipped ==
    [][StageStep("constructed") =>
        LET q == [p EXCEPT !.defaultVarFiles = SelectSeq(@, CanBeRead)]
            r == loadVars(q, heap, dir, p.tfvarsPaths, remote')
        IN  /\ heap' = r.heap
            /\ inputVars' = r.vars
            /\ trace'[3].ok = (r.err = NoErr)
            /\ ~trace'[3].ok
               => \/ remote'.err
                  \/ \E i \in 1..Len(p.tfvarsPaths) :
                         ~CanBeRead(p.tfvarsPaths[i])]_vars

\* the first default file could not be read, and the resolution succeeded
\* with the value of a later default file in the mapping
C16_Witness ==
    /\ Resolved
    /\ Len(p.defaultVarFiles) = 3
    /\ ~CanBeRead(p.defaultVarFiles[1])
    /\ CanBeRead(p.defaultVarFiles[3])
    /\ NameY \in DOMAIN heap[inputVars]
    /\ heap[inputVars][NameY] = StringVal(<<"5">>)

\* the primary default files that exist, and the auto-loaded names
PrimaryNames ==
    {n \in {defaultTfFile, defaultTfFile \o JsonSuffix} : ExistsInDir(n)}
AutoNames ==
    {e.name : e \in {x \in dir.entries :
                        \/ HasSuffix(x.name, autoVarsSuffix)
                        \/ HasSuffix(x.name, autoVarsSuffix \o JsonSuffix)}}
\* the file can be read and sets the key
FileSets(name, k) ==
    CanBeRead(name) /\ \E i \in 1..Len(FileNamed(dir, name).attrs) :
                           FileNamed(dir, name).attrs[i].name = k
FileValue(name, k) ==
    LET attrs == FileNamed(dir, name).attrs
    IN  attrs[CHOOSE i \in 1..Len(attrs) : attrs[i].name = k].val
\* the last auto-loaded file, in directory order, that sets the key
LastAuto(k) ==
    CHOOSE n \in AutoNames :
        /\ FileSets(n, k)
        /\ \A o \in AutoNames : FileSets(o, k) => (o = n \/ StrLess(o, n))

\* C17: defaultVarFiles is terraform.tfvars, then terraform.tfvars.json,
\* then the auto-loaded files in directory order; a key set by a primary
\* file and by an auto-loaded file resolves to the direct input for it when
\* there is one, and otherwise, when no explicit file sets it, to the value
\* of the last auto-loaded file that sets it.
C17_DefaultOrder ==
    LET f == p.defaultVarFiles
        np == Cardinality(PrimaryNames)
    IN  /\ {f[i] : i \in 1..Len(f)} = PrimaryNames \cup AutoNames
        /\ Len(f) = np + Cardinality(AutoNames)
        /\ \A i \in 1..np : f[i] \in PrimaryNames
        /\ (np = 2 => f[1] = defaultTfFile)
        /\ \A i, j \in (np + 1)..Len(f) : i < j => StrLess(f[i], f[j])
        /\ Resolved =>
             \A k \in {NameX, NameY} :
                 ((\E n \in PrimaryNames : FileSets(n, k))
                  /\ (\E n \in AutoNames : FileSets(n, k)))
                 => /\ k \in DOMAIN heap[inputVars]
                    /\ heap[inputVars][k] =
                         IF k \in DOMAIN SrcDirect THEN SrcDirect[k]
                         ELSE IF k \in DOMAIN SrcExplicitFiles
                         THEN SrcExplicitFiles[k]
                         ELSE FileValue(LastAuto(k), k)

\* terraform.tfvars and two auto-loaded files set x to three values, no
\* explicit file or direct input does, and x resolved to the value of the
\* auto-loaded file that is last in directory order
C17_Witness ==
    /\ Resolved
    /\ p.defaultVarFiles = <<defaultTfFile, aAuto, cAuto>>
    /\ FileSets(defaultTfFile, NameX)
    /\ FileSets(aAuto, NameX)
    /\ FileValue(defaultTfFile, NameX) # FileValue(cAuto, NameX)
    /\ FileValue(aAuto, NameX) # FileValue(cAuto, NameX)
    /\ NameX \notin DOMAIN SrcDirect
    /\ NameX \notin DOMAIN SrcExplicitFiles
    /\ heap[inputVars][NameX] = FileValue(cAuto, NameX)

\* a direct input for a key that a primary and an auto-loaded file set wins
C17_WitnessDirect ==
    /\ Resolved
    /\ FileSets(defaultTfFile, NameX)
    /\ FileSets(aAuto, NameX)
    /\ NameX \in DOMAIN SrcDirect
    /\ heap[inputVars][NameX] = SrcDirect[NameX]
    /\ SrcDirect[NameX] # FileValue(cAuto, NameX)

\* what a variable file sets when an attribute whose expression does not
\* evaluate sets nothing
EvaluatedVars(name) ==
    IF ~CanBeRead(name) THEN EmptyMap
    ELSE LET attrs == FileNamed(dir, name).attrs
             ok == {i \in 1..Len(attrs) : attrs[i].ok}
         IN  [k \in {attrs[i].name : i \in ok} |->
                 attrs[CHOOSE i \in ok : attrs[i].name = k].val]
RECURSIVE EvaluatedVarsOf(_)
EvaluatedVarsOf(names) ==
    IF names = <<>> THEN EmptyMap
    ELSE Overlay(EvaluatedVars(Head(names)), EvaluatedVarsOf(Tail(names)))
\* a file that was loaded has an attribute that does not evaluate
FailingAttrLoaded ==
    \E n \in {p.defaultVarFiles[i] : i \in 1..Len(p.defaultVarFiles)}
             \cup {p.tfvarsPaths[i] : i \in 1..Len(p.tfvarsPaths)} :
        /\ CanBeRead(n)
        /\ \E i \in 1..Len(FileNamed(dir, n).attrs) :
               ~FileNamed(dir, n).attrs[i].ok

\* C18: an attribute of a variable file whose expression cannot be
\* evaluated sets nothing: on the first resolution of a Parser the mapping
\* is the overlay of the sources with every such attribute left out, so the
\* key keeps the value of the earlier sources, or stays absent.
C18_FailingKeyNotSet ==
    (Resolved /\ calls = 1) =>
        heap[inputVars] =
            OverlayAll(<<SrcOsEnv, SrcProjectEnv, SrcRemote,
                         EvaluatedVarsOf(p.defaultVarFiles),
                         EvaluatedVarsOf(p.tfvarsPaths), SrcDirect>>)

\* a file with such an attribute never makes the resolution fail
C18_LoadingSucceeds ==
    (ResolutionFailed /\ ret.err.kind = "tfvars") => ~CanBeRead(ret.err.file)

\* C18 where no loaded file has such an attribute
C18_WithoutFailingAttr == FailingAttrLoaded \/ C18_FailingKeyNotSet

\* the directory can be listed and holds no file with an eligible suffix
NoEligibleFile == dir.readable /\ EligibleFiles = {}

\* C19: on a readable directory with no eligible file loadDirectory returns
\* no file and no error, and the call ends at the construct stage with the
\* 'no valid terraform files found' error beside no Module, loadVars, the
\* remote loader, the module loader and the Evaluator never reached.
C19_NoEligibleFiles ==
    NoEligibleFile =>
        /\ Ran(1) => (trace[1].ok /\ files = <<>> /\ skipped = {})
        /\ Ran(2) =>
             /\ Len(trace) = 2
             /\ trace[2] = Stage("parseDirectoryFiles",
                                 Err("noValidFiles", <<>>))
             /\ pc = "done"
             /\ ret = [module |-> NilModule, err |-> Err("noValidFiles", <<>>)]
        /\ blocks = <<>>
        /\ inputVars = Nil
        /\ remote = NoRemote
        /\ evaluator = NoEvaluator
        /\ handed = <<>>

\* a call on such a directory, of a Parser with a remote loader and
\* variable files to load, has returned
C19_Witness ==
    /\ NoEligibleFile
    /\ dir.entries # {}
    /\ pc = "done"
    /\ ret.err = Err("noValidFiles", <<>>)
    /\ p.remoteVariablesLoader
    /\ p.tfvarsPaths # <<>>

\* the config file that mergeConfigFileIfExists reads
SelectedFile ==
    IF cfg.configFile = "" THEN cfg.fs.default ELSE cfg.fs.named
\* the API key the config file sets, and the one the environment holds
FileKeySet == SelectedFile.exists /\ "APIKey" \in DOMAIN SelectedFile.sets
EnvKeySet == "INFRACOST_API_KEY" \in DOMAIN cfg.env
\* the stored profile of the pricing API endpoint in use
ProfileStored == cfg.Config.PricingAPIEndpoint \in DOMAIN cfg.Credentials
\* LoadConfig is past lines 81-84
ProfileApplied == cfg.pc \in {"profile", "state", "done"}

\* an explicitly named config file that does not exist: the error, and the
\* defaults unmerged
C20_NamedFileMissing ==
    (cfg.pc \notin {"none", "start"} /\ cfg.configFile # ""
     /\ ~cfg.fs.named.exists)
    => /\ cfg.pc = "fatal"
       /\ cfg.err = "Config file does not exist"
       /\ cfg.Config = defaultConfigSpec

\* no file named and no default file: no error, and the defaults
C20_DefaultFileAbsent ==
    (cfg.pc \notin {"none", "start"} /\ cfg.configFile = ""
     /\ ~cfg.fs.default.exists)
    => /\ cfg.err # "Config file does not exist"
       /\ cfg.pc = "merged" => (cfg.err = NoConfigErr
                                /\ cfg.Config = defaultConfigSpec)

\* the API key in use is the one of the stored profile (no two keys of the
\* inputs are equal)
ProfileKeyInUse ==
    /\ ProfileApplied
    /\ ProfileStored
    /\ cfg.Config.APIKey =
         cfg.Credentials[cfg.Config.PricingAPIEndpoint].APIKey

\* the key of the stored profile is in use only when neither the config
\* file nor the environment set an API key
C20_ProfileOnlyWhenUnset == ProfileKeyInUse => (~EnvKeySet /\ ~FileKeySet)

\* the same where envconfig.Process read the whole environment
C20_ProfileWhenEnvProcessed ==
    envconfigProcess(defaultConfigSpec, cfg.env, EnvFields).err = NoConfigErr
    => C20_ProfileOnlyWhenUnset

\* C20: mergeConfigFileIfExists returns an error and merges nothing when the
\* named config file does not exist, returns no error and leaves the
\* defaults when no file is named and infracost.yml is absent, and
\* LoadConfig applies the API key of the stored profile only when neither
\* the config file nor the environment set one.
C20_ConfigLoading ==
    /\ C20_NamedFileMissing
    /\ C20_DefaultFileAbsent
    /\ C20_ProfileOnlyWhenUnset

====
